---- MODULE Spec2Model ----
(***************************************************************************)
(* BMI Calculator & Health Tracker (src/bmi_app.py).                       *)
(*                                                                         *)
(* Numbers.  The program computes on Python floats; the model computes on  *)
(* exact fixed-point values:                                               *)
(*   weight       in tenths of a kilogram     (number_input step 0.1)      *)
(*   height       in hundredths of a metre    (number_input step 0.01)     *)
(*   unrounded bmi = weight / height^2 is the rational                     *)
(*                   (1000 * weight) / (height * height)                   *)
(*   rounded bmi  in hundredths (round(bmi, 2))                            *)
(*   average_bmi  the rational <<sum of bmis, number of bmis>>             *)
(* recorded_at is the value of CURRENT_TIMESTAMP, a count of whole seconds.*)
(***************************************************************************)
EXTENDS Integers, Sequences, FiniteSets, TLC

VARIABLES
    users,        \* table users (lines 16-23), rows in insertion order
    bmi_records,  \* table bmi_records (lines 25-36), rows in insertion order
    user_id,      \* st.session_state.user_id (lines 180-181)
    username,     \* st.session_state.username (lines 182-183)
    now,          \* CURRENT_TIMESTAMP of the database (line 33), in seconds
    page,         \* what was rendered or called last (lines 185, 228-229)
    weight,       \* argument of calculate_bmi / widget value (line 234)
    height,       \* argument of calculate_bmi / widget value (line 236)
    result,       \* the tuple calculate_bmi returned last (line 239)
    df,           \* the DataFrame read last (lines 255, 284), a sequence
    stats,        \* the dict get_bmi_statistics returned last (line 286)
    shown         \* the keys of stats the Statistics page read (289-296)

vars == <<users, bmi_records, user_id, username, now, page,
          weight, height, result, df, stats, shown>>

----------------------------------------------------------------------------
(* Bounds of the model *)

MaxLen == 3        \* longest series handed to get_bmi_statistics
MaxRecords == 2    \* rows of bmi_records
MaxTime == 1       \* last second of the database clock

(* Program constants *)

NoUser == 0        \* None in st.session_state.user_id (falsy, as is id 0)
MinWeight == 10    \* min_value=1.0
MaxWeight == 3000  \* max_value=300.0
MinHeight == 50    \* min_value=0.5
MaxHeight == 300   \* max_value=3.0

NoName == ""       \* None in st.session_state.username
EmptyDict == [k \in {} |-> 0]
NoResult == <<>>

Categories == {"Underweight", "Normal weight", "Overweight", "Obese"}

StatKeys == {"total_records", "current_bmi", "average_bmi", "min_bmi",
             "max_bmi", "weight_change", "bmi_trend"}

----------------------------------------------------------------------------
(* calculate_bmi *)

\* round(x, 2) of x = n / d (d > 0), in hundredths: nearest, ties to even.
round2(n, d) ==
    LET q == (100 * n) \div d
        r == (100 * n) - q * d
    IN  IF 2 * r < d THEN q
        ELSE IF 2 * r > d THEN q + 1
        ELSE IF q % 2 = 0 THEN q ELSE q + 1

\* Changed: the lower bounds are exclusive (18.5, 25 and 30 fall in the
\* category below).
category_of_exclusive(n, d) ==
    IF 2 * n <= 37 * d THEN "Underweight"
    ELSE IF 37 * d < 2 * n /\ n <= 25 * d THEN "Normal weight"
    ELSE IF 25 * d < n /\ n <= 30 * d THEN "Overweight"
    ELSE "Obese"

\* The category chain of calculate_bmi on the unrounded bmi = n / d (d > 0).
\* 18.5 is 37/2.
category_of(n, d) ==
    IF 2 * n < 37 * d THEN "Underweight"
    ELSE IF 37 * d <= 2 * n /\ n < 25 * d THEN "Normal weight"
    ELSE IF 25 * d <= n /\ n < 30 * d THEN "Overweight"
    ELSE "Obese"

\* Changed: only a height of exactly zero is refused.
invalid_height_only_zero(h) == h = 0

invalid_height(h) == h <= 0

calculate_bmi(w, h) ==
    IF invalid_height(h) THEN <<0, "Invalid height">>
    ELSE LET n == 1000 * w
             d == h * h
         IN  <<round2(n, d), category_of(n, d)>>

----------------------------------------------------------------------------
(* Storage *)

\* hash_password: the SHA-256 digest of the password, as a tagged value.
hash_password(password) == <<"sha256", password>>

\* AUTOINCREMENT: one more than the largest id ever used; rows are never
\* deleted, so that is the number of rows plus one.
next_id(table) == Len(table) + 1

\* create_user: FALSE on the UNIQUE(username) IntegrityError.
create_user_ok(name) == \A i \in 1..Len(users) : users[i].username # name

create_user(name, password) ==
    Append(users, [id |-> next_id(users), username |-> name,
                   password_hash |-> hash_password(password)])

\* authenticate_user: the id of the matching row, None (NoUser) without one.
authenticate_user(name, password) ==
    LET hit == {i \in 1..Len(users) :
                   /\ users[i].username = name
                   /\ users[i].password_hash = hash_password(password)}
    IN  IF hit = {} THEN NoUser ELSE users[CHOOSE i \in hit : TRUE].id

save_bmi_record(uid, w, h, bmi, category) ==
    Append(bmi_records,
           [id |-> next_id(bmi_records), user_id |-> uid, weight |-> w,
            height |-> h, bmi |-> bmi, category |-> category,
            recorded_at |-> now])

\* WHERE user_id = ? ORDER BY recorded_at DESC: every arrangement of the
\* user's rows with recorded_at non-increasing.  SQL leaves the order of rows
\* with equal recorded_at open, so each such arrangement is a possible answer.
ordered_rows(uid) ==
    LET mine == {i \in 1..Len(bmi_records) : bmi_records[i].user_id = uid}
        n == Cardinality(mine)
    IN  {[i \in 1..n |-> bmi_records[f[i]]] :
            f \in {g \in [1..n -> mine] :
                     /\ \A i, j \in 1..n : i # j => g[i] # g[j]
                     /\ \A i, j \in 1..n : i < j =>
                          bmi_records[g[i]].recorded_at
                            >= bmi_records[g[j]].recorded_at}}

\* SELECT weight, height, bmi, category, recorded_at
select_columns(rows) ==
    [i \in 1..Len(rows) |->
        [weight |-> rows[i].weight, height |-> rows[i].height,
         bmi |-> rows[i].bmi, category |-> rows[i].category,
         recorded_at |-> rows[i].recorded_at]]

\* get_user_bmi_history: the set of DataFrames the query may return.
get_user_bmi_history(uid) == {select_columns(rows) : rows \in ordered_rows(uid)}

----------------------------------------------------------------------------
(* get_bmi_statistics *)

RECURSIVE bmi_sum(_)
bmi_sum(d) == IF d = <<>> THEN 0 ELSE d[1].bmi + bmi_sum(Tail(d))

\* df['bmi'].mean(), as the rational <<sum, count>>
series_mean(d) == <<bmi_sum(d), Len(d)>>

\* Changed: the minimum is searched starting from 0.
series_min_from_zero(d) ==
    CHOOSE m \in {d[i].bmi : i \in 1..Len(d)} \cup {0} :
        /\ m <= 0
        /\ \A i \in 1..Len(d) : m <= d[i].bmi

\* df['bmi'].min()
series_min(d) ==
    CHOOSE m \in {d[i].bmi : i \in 1..Len(d)} :
        \A i \in 1..Len(d) : m <= d[i].bmi

\* df['bmi'].max()
series_max(d) ==
    CHOOSE m \in {d[i].bmi : i \in 1..Len(d)} :
        \A i \in 1..Len(d) : m >= d[i].bmi

\* Changed: reads the last row instead of the first.
current_bmi_oldest(d) == d[Len(d)].bmi

current_bmi(d) == d[1].bmi

\* Changed: oldest minus most recent.
weight_change_reversed(d) ==
    IF Len(d) > 1 THEN d[Len(d)].weight - d[1].weight ELSE 0

weight_change(d) ==
    IF Len(d) > 1 THEN d[1].weight - d[Len(d)].weight ELSE 0

bmi_trend(d) ==
    IF Len(d) > 1 /\ d[1].bmi < d[Len(d)].bmi THEN "Increasing"
    ELSE IF Len(d) > 1 /\ d[1].bmi > d[Len(d)].bmi THEN "Decreasing"
    ELSE "No trend"

get_bmi_statistics(d) ==
    IF d = <<>> THEN EmptyDict
    ELSE [total_records |-> Len(d),
          current_bmi   |-> current_bmi(d),
          average_bmi   |-> series_mean(d),
          min_bmi       |-> series_min(d),
          max_bmi       |-> series_max(d),
          weight_change |-> weight_change(d),
          bmi_trend     |-> bmi_trend(d)]

\* Changed: the page does not test df.empty.
statistics_page_unguarded(d) ==
    [stats |-> get_bmi_statistics(d), shown |-> StatKeys]

\* The body of the Statistics page on the DataFrame d: the dict it holds and
\* the keys it reads from it.
statistics_page(d) ==
    IF d # <<>>
    THEN [stats |-> get_bmi_statistics(d), shown |-> StatKeys]
    ELSE [stats |-> EmptyDict, shown |-> {}]

----------------------------------------------------------------------------
(* Inputs *)

Usernames == {"", "alice", "bob"}
Passwords == {"pw1", "pw2"}

\* Measurements the two number_input widgets can hold (weight, height).
Measurements ==
    {m \in {<<700, 170>>, <<289, 125>>} :
        /\ MinWeight <= m[1] /\ m[1] <= MaxWeight
        /\ MinHeight <= m[2] /\ m[2] <= MaxHeight}

\* Arguments of a direct call of calculate_bmi: any weight, any height.
EvalWeights == {-10, 0, 289, 700, 740, 1000, 1200, 3000}
EvalHeights == {-100, 0, 1, 50, 125, 170, 200, 300}

\* The row a saved measurement is read back as.
history_row(m, t) ==
    [weight |-> m[1], height |-> m[2], bmi |-> calculate_bmi(m[1], m[2])[1],
     category |-> calculate_bmi(m[1], m[2])[2], recorded_at |-> t]

SeriesMeasurements ==
    {<<700, 170>>, <<680, 175>>, <<740, 200>>, <<289, 125>>, <<1000, 200>>}

\* Histories of at most MaxLen records, most recent first.
Series ==
    UNION {{[i \in 1..n |-> history_row(f[i], n - i)] :
               f \in [1..n -> SeriesMeasurements]} : n \in 0..MaxLen}

----------------------------------------------------------------------------
(* The application: main() *)

Init ==
    /\ users = <<>>
    /\ bmi_records = <<>>
    /\ user_id = NoUser
    /\ username = NoName
    /\ now = 0
    /\ page = "Login or Register"
    /\ weight = 700
    /\ height = 170
    /\ result = NoResult
    /\ df = <<>>
    /\ stats = EmptyDict
    /\ shown = {}

\* Every click reruns main(): the locals of the run before (bmi, category,
\* df, stats) are gone, and the number_input widgets, which only the page
\* "BMI Calculator" renders, are back at their default values elsewhere.
no_calculator ==
    /\ weight' = 700
    /\ height' = 170
    /\ result' = NoResult

no_frame ==
    /\ df' = <<>>
    /\ stats' = EmptyDict
    /\ shown' = {}

\* CURRENT_TIMESTAMP moves on by a second.
Tick ==
    /\ now < MaxTime
    /\ now' = now + 1
    /\ UNCHANGED <<users, bmi_records, user_id, username, page,
                   weight, height, result, df, stats, shown>>

\* The Register form, submitted.
Register(new_username, new_password, confirm_password) ==
    /\ user_id = NoUser
    /\ users' = IF /\ new_username # "" /\ new_password # ""
                   /\ confirm_password # ""
                   /\ new_password = confirm_password
                   /\ create_user_ok(new_username)
                THEN create_user(new_username, new_password)
                ELSE users
    /\ page' = "Login or Register"
    /\ no_calculator /\ no_frame
    /\ UNCHANGED <<bmi_records, user_id, username, now>>

\* The Login form, submitted.
Login(name, password) ==
    /\ user_id = NoUser
    /\ LET id == IF name # "" /\ password # ""
                 THEN authenticate_user(name, password) ELSE NoUser
       IN  IF id # NoUser
           THEN /\ user_id' = id
                /\ username' = name
                /\ page' = "BMI Calculator"
           ELSE /\ UNCHANGED <<user_id, username>>
                /\ page' = "Login or Register"
    /\ no_calculator /\ no_frame
    /\ UNCHANGED <<users, bmi_records, now>>

\* The Logout button.
Logout ==
    /\ user_id # NoUser
    /\ user_id' = NoUser
    /\ username' = NoName
    /\ page' = "Login or Register"
    /\ no_calculator /\ no_frame
    /\ UNCHANGED <<users, bmi_records, now>>

\* Changed: the calculator is rendered without a logged-in user.
CalculateBMI_any_session(w, h) ==
    /\ Len(bmi_records) < MaxRecords
    /\ weight' = w
    /\ height' = h
    /\ result' = calculate_bmi(w, h)
    /\ bmi_records' =
          IF result'[2] = "Invalid height" THEN bmi_records
          ELSE save_bmi_record(user_id, w, h, result'[1], result'[2])
    /\ page' = "BMI Calculator"
    /\ no_frame
    /\ UNCHANGED <<users, user_id, username, now>>

\* Page "BMI Calculator", button Calculate BMI.
CalculateBMI(w, h) ==
    /\ user_id # NoUser
    /\ Len(bmi_records) < MaxRecords
    /\ weight' = w
    /\ height' = h
    /\ result' = calculate_bmi(w, h)
    /\ bmi_records' =
          IF result'[2] = "Invalid height" THEN bmi_records
          ELSE save_bmi_record(user_id, w, h, result'[1], result'[2])
    /\ page' = "BMI Calculator"
    /\ no_frame
    /\ UNCHANGED <<users, user_id, username, now>>

\* Page "Historical Data".
HistoricalData ==
    /\ user_id # NoUser
    /\ df' \in get_user_bmi_history(user_id)
    /\ stats' = EmptyDict
    /\ shown' = {}
    /\ page' = "Historical Data"
    /\ no_calculator
    /\ UNCHANGED <<users, bmi_records, user_id, username, now>>

\* Page "Statistics".
Statistics ==
    /\ user_id # NoUser
    /\ df' \in get_user_bmi_history(user_id)
    /\ stats' = statistics_page(df').stats
    /\ shown' = statistics_page(df').shown
    /\ page' = "Statistics"
    /\ no_calculator
    /\ UNCHANGED <<users, bmi_records, user_id, username, now>>

Next ==
    \/ Tick
    \/ \E u \in Usernames, p \in Passwords, c \in Passwords : Register(u, p, c)
    \/ \E u \in Usernames, p \in Passwords : Login(u, p)
    \/ Logout
    \/ \E m \in Measurements : CalculateBMI(m[1], m[2])
    \/ HistoricalData
    \/ Statistics

Spec == Init /\ [][Next]_vars

----------------------------------------------------------------------------
(* calculate_bmi called on its own *)

InitEval ==
    /\ users = <<>>
    /\ bmi_records = <<>>
    /\ user_id = NoUser
    /\ username = NoName
    /\ now = 0
    /\ page = "call"
    /\ weight \in EvalWeights
    /\ height \in EvalHeights
    /\ result = NoResult
    /\ df = <<>>
    /\ stats = EmptyDict
    /\ shown = {}

CallCalculateBmi ==
    /\ page = "call"
    /\ result' = calculate_bmi(weight, height)
    /\ page' = "return"
    /\ UNCHANGED <<users, bmi_records, user_id, username, now,
                   weight, height, df, stats, shown>>

NextEval == CallCalculateBmi

SpecEval == InitEval /\ [][NextEval]_vars

----------------------------------------------------------------------------
(* get_bmi_statistics called on its own, and the Statistics page on a       *)
(* history it has read                                                      *)

InitStats ==
    /\ users = <<>>
    /\ bmi_records = <<>>
    /\ user_id = NoUser
    /\ username = NoName
    /\ now = 0
    /\ page = "call"
    /\ weight = 700
    /\ height = 170
    /\ result = NoResult
    /\ df \in Series
    /\ stats = EmptyDict
    /\ shown = {}

CallGetBmiStatistics ==
    /\ page = "call"
    /\ stats' = get_bmi_statistics(df)
    /\ page' = "return"
    /\ UNCHANGED <<users, bmi_records, user_id, username, now,
                   weight, height, result, df, shown>>

RenderStatistics ==
    /\ page = "call"
    /\ stats' = statistics_page(df).stats
    /\ shown' = statistics_page(df).shown
    /\ page' = "Statistics"
    /\ UNCHANGED <<users, bmi_records, user_id, username, now,
                   weight, height, result, df>>

NextStats == CallGetBmiStatistics \/ RenderStatistics

SpecStats == InitStats /\ [][NextStats]_vars

----------------------------------------------------------------------------
(* Properties *)

\* The unrounded bmi of the arguments, as numerator and denominator.
ArgNum == 1000 * weight
ArgDen == height * height

\* The threshold table applied to a bmi given in hundredths.
TableCategory(b) ==
    IF b < 1850 THEN "Underweight"
    ELSE IF b < 2500 THEN "Normal weight"
    ELSE IF b < 3000 THEN "Overweight"
    ELSE "Obese"

First(d) == d[1]
Last(d) == d[Len(d)]
BmiValues(d) == {d[i].bmi : i \in 1..Len(d)}

\* The sum of the bmi of the first k rows of d.
RECURSIVE SumTo(_, _)
SumTo(d, k) == IF k = 0 THEN 0 ELSE SumTo(d, k - 1) + d[k].bmi

\* C1: for a series of more than one record, most recent first, bmi_trend is
\* "Increasing" when the most recent bmi is greater than the oldest,
\* "Decreasing" when it is smaller, "No trend" when they are equal.
C1_TrendFollowsChange ==
    (page = "return" /\ Len(df) > 1) =>
        stats.bmi_trend =
            IF First(df).bmi > Last(df).bmi THEN "Increasing"
            ELSE IF First(df).bmi < Last(df).bmi THEN "Decreasing"
            ELSE "No trend"

\* C2: with height <= 0, calculate_bmi returns (0.0, "Invalid height") for
\* every weight; with height > 0 it never returns "Invalid height".
C2_InvalidHeightSentinel ==
    page = "return" =>
        /\ height <= 0 => result = <<0, "Invalid height">>
        /\ height > 0 => result[2] # "Invalid height"

C2_Witness ==
    /\ page = "return"
    /\ height < 0
    /\ weight > 0
    /\ result = <<0, "Invalid height">>

\* C3: with height > 0 the category is the one of the half-open interval,
\* lower bound inclusive, that holds bmi = weight / height^2: Underweight
\* below 18.5, Normal weight in [18.5, 25), Overweight in [25, 30), Obese
\* from 30.
C3_CategoryByThreshold ==
    (page = "return" /\ height > 0) =>
        /\ result[2] \in Categories
        /\ result[2] = "Underweight" <=> 2 * ArgNum < 37 * ArgDen
        /\ result[2] = "Normal weight" <=>
              (37 * ArgDen <= 2 * ArgNum /\ ArgNum < 25 * ArgDen)
        /\ result[2] = "Overweight" <=>
              (25 * ArgDen <= ArgNum /\ ArgNum < 30 * ArgDen)
        /\ result[2] = "Obese" <=> 30 * ArgDen <= ArgNum

C3_Witness ==
    /\ page = "return"
    /\ height > 0
    /\ 2 * ArgNum = 37 * ArgDen
    /\ result[2] = "Normal weight"

\* C4: weight_change is the weight of the first record minus the weight of
\* the last record for a series of more than one record, and 0 for a series
\* of one; it is positive exactly when the weight went up.
C4_WeightChange ==
    (page = "return" /\ df # <<>>) =>
        /\ Len(df) > 1 =>
              stats.weight_change = First(df).weight - Last(df).weight
        /\ Len(df) = 1 => stats.weight_change = 0
        /\ stats.weight_change > 0 <=> First(df).weight > Last(df).weight

C4_Witness ==
    /\ page = "return"
    /\ Len(df) > 1
    /\ First(df).weight > Last(df).weight
    /\ stats.weight_change > 0

\* C5: for a series of the single record r: total_records = 1, current_bmi =
\* average_bmi = min_bmi = max_bmi = r.bmi, weight_change = 0, bmi_trend =
\* "No trend".
C5_SingleRecord ==
    (page = "return" /\ Len(df) = 1) =>
        /\ stats.total_records = 1
        /\ stats.current_bmi = df[1].bmi
        /\ stats.average_bmi[2] > 0
        /\ stats.average_bmi[1] = df[1].bmi * stats.average_bmi[2]
        /\ stats.min_bmi = df[1].bmi
        /\ stats.max_bmi = df[1].bmi
        /\ stats.weight_change = 0
        /\ stats.bmi_trend = "No trend"

C5_Witness ==
    /\ page = "return"
    /\ Len(df) = 1
    /\ stats.total_records = 1
    /\ stats.min_bmi > 0

\* C6: for a non-empty series, total_records is its length, current_bmi the
\* bmi of its first record, average_bmi, min_bmi and max_bmi the mean, the
\* least and the greatest of the bmi of all its records; so min_bmi <=
\* current_bmi <= max_bmi and min_bmi <= average_bmi <= max_bmi.
C6_Aggregates ==
    (page = "return" /\ df # <<>>) =>
        /\ stats.total_records = Len(df)
        /\ stats.current_bmi = First(df).bmi
        /\ stats.average_bmi[2] > 0
        /\ stats.average_bmi[1] * Len(df)
              = SumTo(df, Len(df)) * stats.average_bmi[2]
        /\ stats.min_bmi \in BmiValues(df)
        /\ stats.max_bmi \in BmiValues(df)
        /\ \A b \in BmiValues(df) : stats.min_bmi <= b /\ b <= stats.max_bmi
        /\ stats.min_bmi <= stats.current_bmi
        /\ stats.current_bmi <= stats.max_bmi
        /\ stats.min_bmi * stats.average_bmi[2] <= stats.average_bmi[1]
        /\ stats.average_bmi[1] <= stats.max_bmi * stats.average_bmi[2]

C6_Witness ==
    /\ page = "return"
    /\ Len(df) > 2
    /\ stats.min_bmi < stats.current_bmi
    /\ stats.current_bmi < stats.max_bmi
    /\ Last(df).bmi # First(df).bmi

\* C7: get_bmi_statistics returns the empty dict for an empty series and a
\* dict with all seven keys for a non-empty one; the Statistics page reads
\* keys of the dict only when the series is non-empty, and only keys the
\* dict has.
C7_EmptyStatistics ==
    /\ page = "return" =>
          DOMAIN stats = IF df = <<>> THEN {} ELSE StatKeys
    /\ page = "Statistics" =>
          /\ shown \subseteq DOMAIN stats
          /\ shown # {} => df # <<>>
          /\ df # <<>> => shown = StatKeys

C7_Witness ==
    /\ page = "return"
    /\ df = <<>>
    /\ DOMAIN stats = {}

\* The rows of user u in bmi_records, as indices.
RowsOf(u) == {i \in 1..Len(bmi_records) : bmi_records[i].user_id = u}
Newest(u) == CHOOSE i \in RowsOf(u) : \A j \in RowsOf(u) : j <= i
Oldest(u) == CHOOSE i \in RowsOf(u) : \A j \in RowsOf(u) : i <= j

\* C8: the history read for a user starts with the record the user saved
\* last and ends with the record the user saved first, also when records
\* were saved within one tick of the timestamp.
C8_HistoryMostRecentFirst ==
    (page \in {"Historical Data", "Statistics"} /\ RowsOf(user_id) # {}) =>
        /\ Len(df) = Cardinality(RowsOf(user_id))
        /\ First(df) = select_columns(<<bmi_records[Newest(user_id)]>>)[1]
        /\ Last(df) = select_columns(<<bmi_records[Oldest(user_id)]>>)[1]

\* Every persisted record carries the id of a registered user and one of
\* the four categories.
StoredRecordsValid ==
    \A i \in 1..Len(bmi_records) :
        /\ bmi_records[i].user_id # NoUser
        /\ \E j \in 1..Len(users) : users[j].id = bmi_records[i].user_id
        /\ bmi_records[i].category \in Categories

\* A step that changes bmi_records appends one record, with the id of the
\* user logged in at that step and one of the four categories.
SavedWhileLoggedIn ==
    bmi_records' # bmi_records =>
        /\ user_id # NoUser
        /\ Len(bmi_records') = Len(bmi_records) + 1
        /\ SubSeq(bmi_records', 1, Len(bmi_records)) = bmi_records
        /\ Last(bmi_records').user_id = user_id
        /\ Last(bmi_records').category \in Categories

\* C9: in every reachable state every persisted record was saved while a
\* user was logged in, carries that user's id and has one of the four
\* categories; "Invalid height" is never persisted.
C9_RecordsOfLoggedInUser ==
    [](StoredRecordsValid) /\ [][SavedWhileLoggedIn]_vars

C9_Witness ==
    /\ Len(bmi_records) > 1
    /\ page = "BMI Calculator"
    /\ result # NoResult
    /\ Last(bmi_records).user_id = user_id
    /\ bmi_records[1].user_id # user_id

\* C10: with height > 0, the category returned is the one the threshold
\* table gives for the returned, rounded bmi.
C10_CategoryOfReturnedValue ==
    (page = "return" /\ height > 0) =>
        result[2] = TableCategory(result[1])

====
